---- MODULE Spec2Model ----
(***************************************************************************)
(* Model of package multicast (multicast.go): a UDP connection that joins  *)
(* a multicast group on several interfaces and fans one payload out over   *)
(* every interface it keeps in c.ifaces.                                   *)
(*                                                                         *)
(* The operating system and the packages net, ipv4 and ipv6 are the        *)
(* environment: whether a bind, a group-join, a set-interface, a send or a *)
(* close(2) succeeds is an input of the call, drawn from a small set.      *)
(***************************************************************************)
EXTENDS Integers, Sequences, FiniteSets, TLC

\* Bounds of the model.
MaxCand == 2        \* longest candidate interface list given to open
MaxJoins == 1       \* successful JoinMulticastGroup calls after open

\* The interface indexes of the host: two, so that member lists hold distinct
\* and repeated interfaces.
IfIndexes == {1, 2}

\* runtime.GOOS values: three with per-packet interface annotation, one without.
Platforms == {"linux", "darwin", "ios", "windows"}
Networks == {"udp4", "udp6", "udp5"}

VARIABLES
    goos,       \* runtime.GOOS of the build
    phase,      \* "init": before open; "open": the caller holds a *UDPConn;
                \* "failed": open returned an error; "panicked": a call panicked
    conn,       \* the UDPConn struct: network, ifaces, ipv4conn, ipv6conn
    sock,       \* the netFD shared by conn.UDPConn and the packet conn
    openLog,    \* the group-joins open attempted, in order: interface and outcome
    joined,     \* the interfaces on which a group-join of this socket succeeded
    sent,       \* datagram sends attempted by the last call, in order
    ret,        \* what the last call returned
    env,        \* the callers' discipline and the host's faults during
                \* concurrent fan-out sends
    calls,      \* per goroutine, its position in WriteToMulticast
    wire        \* the datagram sent last by a concurrent fan-out send

vars == <<goos, phase, conn, sock, openLog, joined, sent, ret, env, calls, wire>>

-----------------------------------------------------------------------------
\* Errors. An error is a record; Nil is Go's nil error. wraps holds the errors
\* an errors.Join or a %w wraps, in order.

Nil == [msg |-> "nil", on |-> 0, wraps |-> <<>>]

\* An error made by errors.New / returned by the OS for interface `on`.
Err(m, i) == [msg |-> m, on |-> i, wraps |-> <<>>]

\* errors.Join(errs...): nil errors are dropped; nil when none remains.
errorsJoin(errs) ==
    LET nn == SelectSeq(errs, LAMBDA e : e # Nil)
    IN  IF nn = <<>> THEN Nil ELSE [msg |-> "join", on |-> 0, wraps |-> nn]

\* fmt.Errorf(m + ": %w", e)
Errorf(m, e) == [msg |-> m, on |-> 0, wraps |-> IF e = Nil THEN <<>> ELSE <<e>>]

RECURSIVE Underlying(_)
\* The underlying (leaf) failures an error references, in order.
Underlying(e) ==
    IF e = Nil THEN <<>>
    ELSE IF e.wraps = <<>> THEN <<e>>
    ELSE LET RECURSIVE Flat(_)
             Flat(s) == IF s = <<>> THEN <<>> ELSE Underlying(Head(s)) \o Flat(Tail(s))
         IN  Flat(e.wraps)

-----------------------------------------------------------------------------
\* The state before construction.

NoConn == [network |-> "", ifaces |-> <<>>, ipv4conn |-> FALSE, ipv6conn |-> FALSE]
\* A socket's multicast options start at the OS defaults: TTL / hop limit 1,
\* loopback on, no outbound interface chosen.
NoSock == [state |-> "none", osCloses |-> 0, mcastIf |-> 0, ttl |-> 1, loopback |-> TRUE]
NoRet == [op |-> "none", args |-> <<>>, entry |-> "none", err |-> Nil, conn |-> FALSE, val |-> <<>>]

\* The goroutines that call WriteToMulticast concurrently.
Writers == {1, 2}

\* A goroutine outside WriteToMulticast; no datagram sent yet; callers that
\* do not serialise and a host without faults.
Idle == [pc |-> "idle", ifi |-> 0, wcm |-> 0, setOk |-> TRUE, errs |-> <<>>]
NoDatagram == [writer |-> 0, member |-> 0, iface |-> 0, ifindex |-> 0,
               mcastIf |-> 0, setOk |-> TRUE, ok |-> TRUE]
NoEnv == [serial |-> FALSE, setBad |-> {}, sendBad |-> {}]

Init ==
    /\ env = NoEnv
    /\ calls = [w \in Writers |-> Idle]
    /\ wire = NoDatagram
    /\ goos \in Platforms
    /\ phase = "init"
    /\ conn = NoConn
    /\ sock = NoSock
    /\ openLog = <<>>
    /\ joined = {}
    /\ sent = <<>>
    /\ ret = NoRet

-----------------------------------------------------------------------------
\* Close.

ErrClosed == Err("use of closed network connection", 0)

\* Mutant: every Close of a wrapper closes the descriptor again.
netClose_Again(s, osErr) ==
    [sock |-> [s EXCEPT !.state = "closed", !.osCloses = @ + 1],
     err  |-> IF osErr THEN Err("close", 0) ELSE Nil]

\* (*net.UDPConn).Close on the netFD s: the first close releases the descriptor
\* with one close(2), whose error (osErr) it returns; a close of a closed netFD
\* touches nothing and returns ErrClosed.
netClose(s, osErr) ==
    IF s.state = "open"
    THEN [sock |-> [s EXCEPT !.state = "closed", !.osCloses = @ + 1],
          err  |-> IF osErr THEN Err("close", 0) ELSE Nil]
    ELSE [sock |-> s, err |-> ErrClosed]

\* Mutant: Close leaves the packet conn pointers set.
DoClose_KeepHandles(c, s, osErr) ==
    LET r4 == IF c.ipv4conn THEN netClose(s, osErr) ELSE [sock |-> s, err |-> Nil]
        r6 == IF c.ipv6conn THEN netClose(r4.sock, osErr) ELSE [sock |-> r4.sock, err |-> Nil]
        ru == netClose(r6.sock, osErr)
    IN  [c |-> c, sock |-> ru.sock, err |-> errorsJoin(<<r4.err, r6.err, ru.err>>)]

\* Mutant: Close also drops the member list.
DoClose_ClearIfaces(c, s, osErr) ==
    LET r4 == IF c.ipv4conn THEN netClose(s, osErr) ELSE [sock |-> s, err |-> Nil]
        r6 == IF c.ipv6conn THEN netClose(r4.sock, osErr) ELSE [sock |-> r4.sock, err |-> Nil]
        ru == netClose(r6.sock, osErr)
    IN  [c    |-> [c EXCEPT !.ipv4conn = FALSE, !.ipv6conn = FALSE, !.ifaces = <<>>],
         sock |-> ru.sock,
         err  |-> errorsJoin(<<r4.err, r6.err, ru.err>>)]

\* (c *UDPConn) Close(): closes the non-nil packet conn (which closes the
\* net.UDPConn it wraps, i.e. the same netFD) and sets it to nil, then closes
\* c.UDPConn, a copy of that net.UDPConn sharing the netFD.
DoClose(c, s, osErr) ==
    LET r4 == IF c.ipv4conn THEN netClose(s, osErr) ELSE [sock |-> s, err |-> Nil]
        e4 == errorsJoin(<<Nil, r4.err>>)
        r6 == IF c.ipv6conn THEN netClose(r4.sock, osErr) ELSE [sock |-> r4.sock, err |-> Nil]
        e6 == IF c.ipv6conn THEN errorsJoin(<<e4, r6.err>>) ELSE e4
        ru == netClose(r6.sock, osErr)
    IN  [c    |-> [c EXCEPT !.ipv4conn = FALSE, !.ipv6conn = FALSE],
         sock |-> ru.sock,
         err  |-> errorsJoin(<<e6, ru.err>>)]

-----------------------------------------------------------------------------
\* Join.

\* Mutant: the nil checks of the arguments are missing.
DoJoinMulticastGroup_NoNilCheck(c, ifaceNil, gaddrNil, iface, joinOk) ==
    LET out(c2, e, called, pan) == [c |-> c2, err |-> e, called |-> called, panic |-> pan]
    IN  IF c.network = "udp4" /\ ~c.ipv4conn THEN out(c, Nil, FALSE, TRUE)
        ELSE IF c.network = "udp6" /\ ~c.ipv6conn THEN out(c, Nil, FALSE, TRUE)
        ELSE IF c.network \notin {"udp4", "udp6"} THEN out(c, Nil, FALSE, TRUE)
        ELSE IF ~joinOk THEN out(c, Err("JoinGroup", iface), TRUE, FALSE)
        ELSE out([c EXCEPT !.ifaces = Append(@, iface)], Nil, TRUE, FALSE)

\* Mutant: the interface is appended before the group-join is attempted.
DoJoinMulticastGroup_AppendFirst(c, ifaceNil, gaddrNil, iface, joinOk) ==
    LET out(c2, e, called, pan) == [c |-> c2, err |-> e, called |-> called, panic |-> pan]
        c1 == [c EXCEPT !.ifaces = Append(@, iface)]
    IN  IF ifaceNil THEN out(c, Err("multicast: interface cannot be nil", 0), FALSE, FALSE)
        ELSE IF gaddrNil THEN out(c, Err("multicast: group address cannot be nil", 0), FALSE, FALSE)
        ELSE IF c.network = "udp4" /\ ~c.ipv4conn THEN out(c, Nil, FALSE, TRUE)
        ELSE IF c.network = "udp6" /\ ~c.ipv6conn THEN out(c, Nil, FALSE, TRUE)
        ELSE IF c.network \notin {"udp4", "udp6"} THEN out(c, Nil, FALSE, TRUE)
        ELSE IF ~joinOk THEN out(c1, Err("JoinGroup", iface), TRUE, FALSE)
        ELSE out(c1, Nil, TRUE, FALSE)

\* (c *UDPConn) JoinMulticastGroup(iface, gaddr). joinOk is the outcome of the
\* control-plane JoinGroup. A nil packet conn is dereferenced (panic).
DoJoinMulticastGroup(c, ifaceNil, gaddrNil, iface, joinOk) ==
    LET out(c2, e, called, pan) == [c |-> c2, err |-> e, called |-> called, panic |-> pan]
    IN  IF ifaceNil THEN out(c, Err("multicast: interface cannot be nil", 0), FALSE, FALSE)
        ELSE IF gaddrNil THEN out(c, Err("multicast: group address cannot be nil", 0), FALSE, FALSE)
        ELSE IF c.network = "udp4" /\ ~c.ipv4conn THEN out(c, Nil, FALSE, TRUE)
        ELSE IF c.network = "udp6" /\ ~c.ipv6conn THEN out(c, Nil, FALSE, TRUE)
        ELSE IF c.network \notin {"udp4", "udp6"} THEN out(c, Nil, FALSE, TRUE)
        ELSE IF ~joinOk THEN out(c, Err("JoinGroup", iface), TRUE, FALSE)
        ELSE out([c EXCEPT !.ifaces = Append(@, iface)], Nil, TRUE, FALSE)

RECURSIVE joinLoop(_, _, _, _, _, _)
\* The loop of joinIfaces from candidate i on: c, the joined errors and the
\* failure count after the last candidate.
joinLoop(c, cands, oks, i, errs, fails) ==
    IF i > Len(cands) THEN [c |-> c, errs |-> errs, fails |-> fails]
    ELSE LET r == DoJoinMulticastGroup(c, FALSE, FALSE, cands[i], oks[i])
         IN  IF r.err # Nil
             THEN joinLoop(r.c, cands, oks, i + 1, errorsJoin(<<errs, r.err>>), fails + 1)
             ELSE joinLoop(r.c, cands, oks, i + 1, errs, fails)

\* Mutant: an empty candidate list is not counted as a total failure.
joinIfaces_EmptyOk(c, cands, oks) ==
    LET l == joinLoop(c, cands, oks, 1, Nil, 0)
    IN  IF l.fails = Len(cands) /\ Len(cands) > 0
        THEN [c |-> l.c, ok |-> FALSE,
              err |-> Errorf("udp: failed to join any interface", l.errs)]
        ELSE IF l.errs # Nil /\ l.fails < Len(cands)
        THEN [c |-> l.c, ok |-> TRUE,
              err |-> [Errorf("multicast: failed to join interfaces", l.errs)
                         EXCEPT !.on = l.fails]]
        ELSE [c |-> l.c, ok |-> TRUE, err |-> Nil]

\* Mutant: the total-failure test is off by one, so a total failure passes as
\* a partial one.
joinIfaces_OffByOne(c, cands, oks) ==
    LET l == joinLoop(c, cands, oks, 1, Nil, 0)
    IN  IF l.fails > Len(cands)
        THEN [c |-> l.c, ok |-> FALSE,
              err |-> Errorf("udp: failed to join any interface", l.errs)]
        ELSE IF l.errs # Nil
        THEN [c |-> l.c, ok |-> TRUE,
              err |-> [Errorf("multicast: failed to join interfaces", l.errs)
                         EXCEPT !.on = l.fails]]
        ELSE [c |-> l.c, ok |-> TRUE, err |-> Nil]

\* (c *UDPConn) joinIfaces(ifaces, gaddr): oks[i] is the outcome of the
\* group-join of candidate i.
joinIfaces(c, cands, oks) ==
    LET l == joinLoop(c, cands, oks, 1, Nil, 0)
    IN  IF l.fails = Len(cands)
        THEN [c |-> l.c, ok |-> FALSE,
              err |-> Errorf("udp: failed to join any interface", l.errs)]
        ELSE IF l.errs # Nil /\ l.fails < Len(cands)
        THEN [c |-> l.c, ok |-> TRUE,
              err |-> [Errorf("multicast: failed to join interfaces", l.errs)
                         EXCEPT !.on = l.fails]]
        ELSE [c |-> l.c, ok |-> TRUE, err |-> Nil]

\* The join attempts joinIfaces makes, as the control plane sees them.
joinLog(cands, oks) == [i \in 1..Len(cands) |-> [iface |-> cands[i], ok |-> oks[i]]]

\* multicastInterfaces(): the host's interfaces that are up and
\* multicast-capable, in enumeration order.
multicastInterfaces(host) ==
    LET keep == SelectSeq(host, LAMBDA ifi : ifi.up /\ ifi.multicast)
    IN  [i \in 1..Len(keep) |-> keep[i].index]

-----------------------------------------------------------------------------
\* Open.

\* What a call leaves behind: the caller's phase, the struct, the socket, the
\* group-joins it attempted, the sends it attempted and what it returned.
Outcome(ph, c, s, log, snt, r) ==
    [phase |-> ph, conn |-> c, sock |-> s, log |-> log, sent |-> snt, ret |-> r]

\* A call's record: its arguments, the socket state it found, the error it
\* returned, whether it returned a connection, and any other value returned.
Ret(op, args, entry, e, hasConn, v) ==
    [op |-> op, args |-> args, entry |-> entry, err |-> e, conn |-> hasConn, val |-> v]

\* Mutant: any network tag is accepted.
validNetwork_Any(netw) == TRUE

\* The switch on network that open starts with.
validNetwork(netw) == netw \in {"udp4", "udp6"}

\* ListenMulticastUDPIfaces(network, ifaces, addr). listenOk: net.ListenUDP
\* succeeds; ifsNil: the ifaces argument is nil, and then host is what
\* net.Interfaces() lists and enumOk whether it succeeds; oks[i]: the
\* group-join of candidate i succeeds; osErr: close(2) reports an error.
DoListenMulticastUDPIfaces(netw, addrNil, listenOk, ifsNil, ifs, host, enumOk, oks, osErr) ==
    LET args == [network |-> netw, addrNil |-> addrNil, ifsNil |-> ifsNil, ifs |-> ifs,
                 listenOk |-> listenOk, enumOk |-> enumOk,
                 listed |-> IF ifsNil /\ enumOk THEN multicastInterfaces(host) ELSE <<>>]
        fail(s, e) == Outcome("failed", NoConn, s, <<>>, <<>>, Ret("Open", args, "none", e, FALSE, <<>>))
        bound == [NoSock EXCEPT !.state = "open"]
    IN  IF addrNil THEN fail(NoSock, Err("multicast: addr cannot be nil", 0))
        ELSE IF ~validNetwork(netw)
        THEN fail(NoSock, Err("network must be either 'udp4' or 'udp6': " \o netw, 0))
        ELSE IF ~listenOk THEN fail(NoSock, Err("ListenUDP", 0))
        ELSE IF ifsNil /\ ~enumOk
        THEN fail(bound, Errorf("multicast: failed to get multicast interfaces",
                                Err("net.Interfaces", 0)))
        ELSE LET cands == IF ifsNil THEN multicastInterfaces(host) ELSE ifs
                 c0 == [network |-> netw, ifaces |-> cands,
                        ipv4conn |-> (netw = "udp4"), ipv6conn |-> (netw = "udp6")]
                 j == joinIfaces(c0, cands, oks)
                 log == joinLog(cands, oks)
             IN  IF ~j.ok /\ j.err # Nil
                 THEN LET cl == DoClose(j.c, bound, osErr)
                      IN  Outcome("failed", cl.c, cl.sock, log, <<>>,
                                  Ret("Open", args, "none", j.err, FALSE, <<>>))
                 ELSE Outcome("open", j.c, bound, log, <<>>,
                              Ret("Open", args, "none", Nil, TRUE, <<>>))

\* Candidate interface lists a caller can pass, and what the host can list:
\* interface i of the host has index i and any flags.
CandidateLists == UNION {[1..n -> IfIndexes] : n \in 0..MaxCand}
HostLists ==
    {[i \in IfIndexes |-> [index |-> i, up |-> f[i][1], multicast |-> f[i][2]]] :
        f \in [IfIndexes -> BOOLEAN \X BOOLEAN]}

Apply(o) ==
    /\ phase' = o.phase
    /\ conn' = o.conn
    /\ sock' = o.sock
    /\ openLog' = IF o.ret.op = "Open" THEN o.log ELSE openLog
    /\ joined' = joined \cup {o.log[i].iface : i \in {k \in DOMAIN o.log : o.log[k].ok}}
    /\ sent' = o.sent
    /\ ret' = o.ret
    /\ UNCHANGED <<goos, env, calls, wire>>

ListenMulticastUDPIfaces ==
    /\ phase = "init"
    /\ \E netw \in Networks, addrNil, listenOk, osErr \in BOOLEAN, oks \in [1..MaxCand -> BOOLEAN] :
         \/ \E ifs \in CandidateLists :
              Apply(DoListenMulticastUDPIfaces(netw, addrNil, listenOk, FALSE, ifs,
                                               <<>>, TRUE, oks, osErr))
         \/ \E host \in HostLists, enumOk \in BOOLEAN :
              Apply(DoListenMulticastUDPIfaces(netw, addrNil, listenOk, TRUE, <<>>,
                                               host, enumOk, oks, osErr))

-----------------------------------------------------------------------------
\* Calls on the connection the caller holds.

Close ==
    /\ phase = "open"
    /\ \E osErr \in BOOLEAN :
         LET cl == DoClose(conn, sock, osErr)
         IN  Apply(Outcome("open", cl.c, cl.sock, <<>>, <<>>,
                           Ret("Close", <<>>, sock.state, cl.err, TRUE, <<>>)))

\* The length of c.ifaces when open returned.
MembersAtOpen == Len(openLog) + Cardinality({i \in DOMAIN openLog : openLog[i].ok})

JoinMulticastGroup ==
    /\ phase = "open"
    /\ Len(conn.ifaces) < MembersAtOpen + MaxJoins
    /\ \E ifaceNil, gaddrNil, joinOk \in BOOLEAN, iface \in IfIndexes :
         /\ (ifaceNil \/ gaddrNil) => joinOk /\ iface = 1
         /\ LET r == DoJoinMulticastGroup(conn, ifaceNil, gaddrNil, iface, joinOk)
                log == IF r.called THEN <<[iface |-> iface, ok |-> joinOk]>> ELSE <<>>
            IN  Apply(Outcome(IF r.panic THEN "panicked" ELSE "open", r.c, sock, log, <<>>,
                              Ret("JoinMulticastGroup",
                                  [ifaceNil |-> ifaceNil, gaddrNil |-> gaddrNil,
                                   iface |-> iface, joins |-> log],
                                  sock.state, r.err, TRUE, <<>>)))

\* Network() and Interfaces(): the latter returns a copy of c.ifaces.
Interfaces ==
    /\ phase = "open"
    /\ Apply(Outcome("open", conn, sock, <<>>, <<>>,
                     Ret("Interfaces", <<>>, sock.state, Nil, TRUE, conn.ifaces)))

\* (c *UDPConn) Network().
Network ==
    /\ phase = "open"
    /\ Apply(Outcome("open", conn, sock, <<>>, <<>>,
                     Ret("Network", <<>>, sock.state, Nil, TRUE, <<conn.network>>)))

-----------------------------------------------------------------------------
\* Outbound parameters.

\* The packet conn of the connection's family is non-nil.
handleLive(c) ==
    \/ c.network = "udp4" /\ c.ipv4conn
    \/ c.network = "udp6" /\ c.ipv6conn

\* (c *UDPConn) SetMulticastTTL(ttl): the family's setter, SetMulticastTTL or
\* SetMulticastHopLimit, on the packet conn; setOk is the setter's outcome.
DoSetMulticastTTL(c, s, ttl, setOk) ==
    IF ~handleLive(c) THEN [sock |-> s, err |-> Nil, panic |-> TRUE]
    ELSE IF setOk THEN [sock |-> [s EXCEPT !.ttl = ttl], err |-> Nil, panic |-> FALSE]
    ELSE [sock |-> s, err |-> Err("SetMulticastTTL", 0), panic |-> FALSE]

\* (c *UDPConn) SetMulticastHopLimit(hoplim): an alias of SetMulticastTTL.
DoSetMulticastHopLimit(c, s, hoplim, setOk) == DoSetMulticastTTL(c, s, hoplim, setOk)

\* (c *UDPConn) SetMulticastLoopback(on).
DoSetMulticastLoopback(c, s, on, setOk) ==
    IF ~handleLive(c) THEN [sock |-> s, err |-> Nil, panic |-> TRUE]
    ELSE IF setOk THEN [sock |-> [s EXCEPT !.loopback = on], err |-> Nil, panic |-> FALSE]
    ELSE [sock |-> s, err |-> Err("SetMulticastLoopback", 0), panic |-> FALSE]

\* The TTL / hop-limit values callers pass: link-local and the mDNS value.
Ttls == {1, 255}

SetMulticastTTL ==
    /\ phase = "open"
    /\ \E ttl \in Ttls, setOk \in BOOLEAN :
         LET r == DoSetMulticastTTL(conn, sock, ttl, setOk)
         IN  Apply(Outcome(IF r.panic THEN "panicked" ELSE "open", conn, r.sock, <<>>, <<>>,
                           Ret("SetMulticastTTL", [ttl |-> ttl], sock.state, r.err, TRUE, <<>>)))

SetMulticastHopLimit ==
    /\ phase = "open"
    /\ \E hoplim \in Ttls, setOk \in BOOLEAN :
         LET r == DoSetMulticastHopLimit(conn, sock, hoplim, setOk)
         IN  Apply(Outcome(IF r.panic THEN "panicked" ELSE "open", conn, r.sock, <<>>, <<>>,
                           Ret("SetMulticastHopLimit", [ttl |-> hoplim], sock.state, r.err, TRUE, <<>>)))

SetMulticastLoopback ==
    /\ phase = "open"
    /\ \E on, setOk \in BOOLEAN :
         LET r == DoSetMulticastLoopback(conn, sock, on, setOk)
         IN  Apply(Outcome(IF r.panic THEN "panicked" ELSE "open", conn, r.sock, <<>>, <<>>,
                           Ret("SetMulticastLoopback", [on |-> on], sock.state, r.err, TRUE, <<>>)))

-----------------------------------------------------------------------------
\* Fan-out send.

\* Mutant: linux is taken for a platform without the per-packet annotation.
PerPacket_NoLinux(os) == os \in {"darwin", "ios"}

\* The GOOS values on which the send carries the interface index per packet.
PerPacket(os) == os \in {"darwin", "ios", "linux"}

RECURSIVE writeLoop_DropSetErr(_, _, _, _, _, _, _, _)
\* Mutant: the error of a failed SetMulticastInterface is dropped.
writeLoop_DropSetErr(c, perPacket, setBad, sendBad, ifi, mif, errs, log) ==
    IF ifi > Len(c.ifaces) THEN [errs |-> errs, log |-> log, mcastIf |-> mif]
    ELSE LET m == c.ifaces[ifi]
             setFails == ~perPacket /\ m \in setBad
             mif2 == IF perPacket \/ setFails THEN mif ELSE m
             sendFails == m \in sendBad
             errs2 == IF sendFails THEN Append(errs, Err("WriteTo", m)) ELSE errs
             d == [member |-> ifi, iface |-> m, ifindex |-> IF perPacket THEN m ELSE 0,
                   mcastIf |-> mif2, setOk |-> ~setFails, ok |-> ~sendFails]
         IN  writeLoop_DropSetErr(c, perPacket, setBad, sendBad, ifi + 1, mif2, errs2,
                                  Append(log, d))

RECURSIVE writeLoop_StaleIndex(_, _, _, _, _, _, _, _)
\* Mutant: the control message keeps the interface index of the first member.
writeLoop_StaleIndex(c, perPacket, setBad, sendBad, ifi, mif, errs, log) ==
    IF ifi > Len(c.ifaces) THEN [errs |-> errs, log |-> log, mcastIf |-> mif]
    ELSE LET m == c.ifaces[ifi]
             setFails == ~perPacket /\ m \in setBad
             mif2 == IF perPacket \/ setFails THEN mif ELSE m
             errs1 == IF setFails THEN Append(errs, Err("SetMulticastInterface", m)) ELSE errs
             sendFails == m \in sendBad
             errs2 == IF sendFails THEN Append(errs1, Err("WriteTo", m)) ELSE errs1
             d == [member |-> ifi, iface |-> m, ifindex |-> IF perPacket THEN c.ifaces[1] ELSE 0,
                   mcastIf |-> mif2, setOk |-> ~setFails, ok |-> ~sendFails]
         IN  writeLoop_StaleIndex(c, perPacket, setBad, sendBad, ifi + 1, mif2, errs2,
                                  Append(log, d))

RECURSIVE writeLoop_Abort(_, _, _, _, _, _, _, _)
\* Mutant: the loop returns at the first failing step.
writeLoop_Abort(c, perPacket, setBad, sendBad, ifi, mif, errs, log) ==
    IF ifi > Len(c.ifaces) THEN [errs |-> errs, log |-> log, mcastIf |-> mif]
    ELSE LET m == c.ifaces[ifi]
             setFails == ~perPacket /\ m \in setBad
             sendFails == m \in sendBad
             d == [member |-> ifi, iface |-> m, ifindex |-> IF perPacket THEN m ELSE 0,
                   mcastIf |-> m, setOk |-> TRUE, ok |-> ~sendFails]
         IN  IF setFails
             THEN [errs |-> Append(errs, Err("SetMulticastInterface", m)), log |-> log, mcastIf |-> mif]
             ELSE IF sendFails
             THEN [errs |-> Append(errs, Err("WriteTo", m)), log |-> Append(log, d),
                   mcastIf |-> IF perPacket THEN mif ELSE m]
             ELSE writeLoop_Abort(c, perPacket, setBad, sendBad, ifi + 1,
                                  IF perPacket THEN mif ELSE m, errs, Append(log, d))

RECURSIVE writeLoop(_, _, _, _, _, _, _, _)
\* The loop of WriteToMulticast from member ifi on. mif is the socket-wide
\* outbound interface, errs the errors collected so far, log the datagram
\* sends attempted so far. On a set-then-send platform SetMulticastInterface
\* fails for the members in setBad; WriteTo fails for the members in sendBad.
writeLoop(c, perPacket, setBad, sendBad, ifi, mif, errs, log) ==
    IF ifi > Len(c.ifaces) THEN [errs |-> errs, log |-> log, mcastIf |-> mif]
    ELSE LET m == c.ifaces[ifi]
             setFails == ~perPacket /\ m \in setBad
             mif2 == IF perPacket \/ setFails THEN mif ELSE m
             errs1 == IF setFails THEN Append(errs, Err("SetMulticastInterface", m)) ELSE errs
             sendFails == m \in sendBad
             errs2 == IF sendFails THEN Append(errs1, Err("WriteTo", m)) ELSE errs1
             d == [member |-> ifi, iface |-> m, ifindex |-> IF perPacket THEN m ELSE 0,
                   mcastIf |-> mif2, setOk |-> ~setFails, ok |-> ~sendFails]
         IN  writeLoop(c, perPacket, setBad, sendBad, ifi + 1, mif2, errs2, Append(log, d))

\* Mutant: the empty-payload early return is missing.
DoWriteToMulticast_NoEmptyCheck(c, s, perPacket, bufLen, addrNil, setBad, sendBad) ==
    LET out(s2, e, log, pan) == [sock |-> s2, err |-> e, sent |-> log, panic |-> pan]
        handle == IF c.network = "udp4" THEN c.ipv4conn ELSE c.ipv6conn
    IN  IF addrNil THEN out(s, Err("multicast: address cannot be nil", 0), <<>>, FALSE)
        ELSE IF c.network \notin {"udp4", "udp6"} THEN out(s, Nil, <<>>, TRUE)
        ELSE IF c.ifaces # <<>> /\ ~handle THEN out(s, Nil, <<>>, TRUE)
        ELSE LET l == writeLoop(c, perPacket, setBad, sendBad, 1, s.mcastIf, <<>>, <<>>)
             IN  out([s EXCEPT !.mcastIf = l.mcastIf], errorsJoin(l.errs), l.log, FALSE)

\* (c *UDPConn) WriteToMulticast(buf, addr) with len(buf) = bufLen.
DoWriteToMulticast(c, s, perPacket, bufLen, addrNil, setBad, sendBad) ==
    LET out(s2, e, log, pan) == [sock |-> s2, err |-> e, sent |-> log, panic |-> pan]
        handle == IF c.network = "udp4" THEN c.ipv4conn ELSE c.ipv6conn
    IN  IF addrNil THEN out(s, Err("multicast: address cannot be nil", 0), <<>>, FALSE)
        ELSE IF bufLen = 0 THEN out(s, Nil, <<>>, FALSE)
        ELSE IF c.network \notin {"udp4", "udp6"} THEN out(s, Nil, <<>>, TRUE)
        ELSE IF c.ifaces # <<>> /\ ~handle THEN out(s, Nil, <<>>, TRUE)
        ELSE LET l == writeLoop(c, perPacket, setBad, sendBad, 1, s.mcastIf, <<>>, <<>>)
             IN  out([s EXCEPT !.mcastIf = l.mcastIf], errorsJoin(l.errs), l.log, FALSE)

BufLens == {0, 1}

WriteToMulticast ==
    /\ phase = "open"
    /\ \E bufLen \in BufLens, addrNil \in BOOLEAN, setBad, sendBad \in SUBSET IfIndexes :
         /\ PerPacket(goos) \/ addrNil \/ bufLen = 0 => setBad = {}
         /\ addrNil \/ bufLen = 0 => sendBad = {}
         /\ LET w == DoWriteToMulticast(conn, sock, PerPacket(goos), bufLen, addrNil, setBad, sendBad)
            IN  Apply(Outcome(IF w.panic THEN "panicked" ELSE "open", conn, w.sock, <<>>, w.sent,
                              Ret("WriteToMulticast", [bufLen |-> bufLen, addrNil |-> addrNil],
                                  sock.state, w.err, TRUE, <<>>)))

-----------------------------------------------------------------------------

Next ==
    \/ ListenMulticastUDPIfaces
    \/ Close
    \/ JoinMulticastGroup
    \/ Interfaces
    \/ WriteToMulticast

Spec == Init /\ [][Next]_vars

\* A connection as a successful open returns it: the outcome of
\* ListenMulticastUDPIfaces on one of a few candidate lists, with any outcome
\* of the group-joins that lets open succeed.
OpenedLists == {<<1>>, <<1, 2>>}

Opened(o) ==
    /\ o.phase = "open"
    /\ phase = o.phase
    /\ conn = o.conn
    /\ sock = o.sock
    /\ openLog = o.log
    /\ joined = {o.log[i].iface : i \in {k \in DOMAIN o.log : o.log[k].ok}}
    /\ sent = o.sent
    /\ ret = o.ret

InitOpened ==
    /\ env = NoEnv
    /\ calls = [w \in Writers |-> Idle]
    /\ wire = NoDatagram
    /\ goos \in Platforms
    /\ \E netw \in {"udp4", "udp6"}, ifs \in OpenedLists :
         \E oks \in [DOMAIN ifs -> BOOLEAN] :
            Opened(DoListenMulticastUDPIfaces(netw, FALSE, TRUE, FALSE, ifs, <<>>, TRUE, oks, FALSE))

\* The calls on an open connection, with those that read the family and set
\* the outbound parameters of the socket.
NextParams ==
    \/ Close
    \/ JoinMulticastGroup
    \/ Interfaces
    \/ WriteToMulticast
    \/ Network
    \/ SetMulticastTTL
    \/ SetMulticastHopLimit
    \/ SetMulticastLoopback

SpecParams == InitOpened /\ [][NextParams]_vars

-----------------------------------------------------------------------------
\* Concurrent fan-out sends: the goroutines of Writers call
\* WriteToMulticast(buf, addr) with a non-empty buf and a non-nil addr on one
\* open connection. The struct has no lock, so the steps of the calls
\* interleave: one step is the selection of the outbound interface, one the
\* WriteTo. Members stay fixed.

\* Mutant: SetMulticastInterface reports success and leaves the socket alone.
selectStep_NoSet(c, s, perPacket, setBad, call) ==
    [call |-> [call EXCEPT !.pc = "send", !.setOk = TRUE,
                           !.wcm = IF perPacket THEN c.ifaces[call.ifi] ELSE @],
     sock |-> s]

\* The head of one iteration: wcm.IfIndex = c.ifaces[ifi].Index where the
\* interface is annotated per packet, SetMulticastInterface(&c.ifaces[ifi])
\* elsewhere, whose error is appended to errs.
selectStep(c, s, perPacket, setBad, call) ==
    LET m == c.ifaces[call.ifi]
    IN  IF perPacket
        THEN [call |-> [call EXCEPT !.pc = "send", !.wcm = m, !.setOk = TRUE], sock |-> s]
        ELSE IF m \in setBad
        THEN [call |-> [call EXCEPT !.pc = "send", !.setOk = FALSE,
                                    !.errs = Append(@, Err("SetMulticastInterface", m))],
              sock |-> s]
        ELSE [call |-> [call EXCEPT !.pc = "send", !.setOk = TRUE],
              sock |-> [s EXCEPT !.mcastIf = m]]

\* The tail of one iteration: WriteTo(buf, &wcm, addr) by goroutine w. The
\* datagram carries wcm.IfIndex and leaves via the socket's outbound
\* interface of this moment; its error is appended to errs.
sendStep(c, s, sendBad, w, call) ==
    LET m == c.ifaces[call.ifi]
    IN  [call |-> [call EXCEPT !.pc = "loop", !.ifi = @ + 1,
                               !.errs = IF m \in sendBad THEN Append(@, Err("WriteTo", m)) ELSE @],
         datagram |-> [writer |-> w, member |-> call.ifi, iface |-> m, ifindex |-> call.wcm,
                       mcastIf |-> s.mcastIf, setOk |-> call.setOk, ok |-> m \notin sendBad]]

\* The hosts' faults while the goroutines send: the interfaces for which
\* SetMulticastInterface fails and those for which WriteTo fails.
SetFaults == SUBSET IfIndexes
SendFaults == SUBSET IfIndexes

InitConc ==
    /\ goos \in Platforms
    /\ env \in [serial : BOOLEAN, setBad : SetFaults, sendBad : SendFaults]
    /\ PerPacket(goos) => env.setBad = {}
    /\ calls = [w \in Writers |-> Idle]
    /\ wire = NoDatagram
    /\ \E netw \in {"udp4", "udp6"}, ifs \in OpenedLists :
         \E oks \in [DOMAIN ifs -> BOOLEAN] :
            Opened(DoListenMulticastUDPIfaces(netw, FALSE, TRUE, FALSE, ifs, <<>>, TRUE, oks, FALSE))

\* Goroutine w enters WriteToMulticast and passes its argument checks. Callers
\* that serialise their sends enter only while no other call is in flight.
CallWrite(w) ==
    /\ phase = "open" /\ sock.state = "open"
    /\ calls[w].pc = "idle"
    /\ env.serial => \A v \in Writers : calls[v].pc = "idle"
    /\ calls' = [calls EXCEPT ![w] = [Idle EXCEPT !.pc = "loop", !.ifi = 1]]
    /\ UNCHANGED <<goos, phase, conn, sock, openLog, joined, sent, ret, env, wire>>

SelectInterface(w) ==
    /\ calls[w].pc = "loop" /\ calls[w].ifi <= Len(conn.ifaces)
    /\ LET r == selectStep(conn, sock, PerPacket(goos), env.setBad, calls[w])
       IN  calls' = [calls EXCEPT ![w] = r.call] /\ sock' = r.sock
    /\ UNCHANGED <<goos, phase, conn, openLog, joined, sent, ret, env, wire>>

WriteTo(w) ==
    /\ calls[w].pc = "send"
    /\ LET r == sendStep(conn, sock, env.sendBad, w, calls[w])
       IN  calls' = [calls EXCEPT ![w] = r.call] /\ wire' = r.datagram
    /\ UNCHANGED <<goos, phase, conn, sock, openLog, joined, sent, ret, env>>

\* return errors.Join(errs...) once the range over c.ifaces is exhausted.
ReturnWrite(w) ==
    /\ calls[w].pc = "loop" /\ calls[w].ifi > Len(conn.ifaces)
    /\ calls' = [calls EXCEPT ![w] = Idle]
    /\ ret' = Ret("WriteToMulticast", [bufLen |-> 1, addrNil |-> FALSE], sock.state,
                  errorsJoin(calls[w].errs), TRUE, <<>>)
    /\ UNCHANGED <<goos, phase, conn, sock, openLog, joined, sent, env, wire>>

NextConc ==
    \/ \E w \in Writers : CallWrite(w)
    \/ \E w \in Writers : SelectInterface(w)
    \/ \E w \in Writers : WriteTo(w)
    \/ \E w \in Writers : ReturnWrite(w)

SpecConc == InitConc /\ [][NextConc]_vars

-----------------------------------------------------------------------------
\* Properties of open.

\* N, the number of candidate interfaces open tried, and k, how many failed.
OpenN == Len(openLog)
OpenK == Cardinality({i \in DOMAIN openLog : ~openLog[i].ok})
PartialJoin == ret.op = "Open" /\ 0 < OpenK /\ OpenK < OpenN
TotalJoinFailure == ret.op = "Open" /\ OpenN >= 1 /\ OpenK = OpenN

\* C1: when k of the N candidate interfaces fail to join, 0 < k < N, open
\* returns the connection together with a non-nil aggregated warning.
C1_PartialJoinReturnsWarning ==
    PartialJoin => (ret.conn /\ phase = "open" /\ ret.err # Nil)

\* C2: when k of the N candidate interfaces fail to join, 0 < k < N, the
\* members list of the returned connection has exactly N-k entries.
C2_PartialJoinMembersCount ==
    PartialJoin => (ret.conn /\ Len(conn.ifaces) = OpenN - OpenK)

\* C3: every entry of members is an interface on which a group-join of this
\* connection succeeded, after open and after any sequence of joins.
C3_MembersAreJoined ==
    phase = "open" => \A i \in DOMAIN conn.ifaces : conn.ifaces[i] \in joined

\* C4: when all N >= 1 candidate interfaces fail to join, open returns an
\* error and no connection, and the bound socket has been released.
C4_TotalJoinFailureFailsAndReleases ==
    TotalJoinFailure =>
        /\ ~ret.conn /\ phase = "failed" /\ ret.err # Nil
        /\ Len(Underlying(ret.err)) = OpenN
        /\ sock.state = "closed"

C4_Witness ==
    /\ TotalJoinFailure /\ OpenN >= 2
    /\ ~ret.conn /\ sock.state = "closed"

-----------------------------------------------------------------------------
\* Properties of the fan-out send.

\* A fan-out send of a non-empty payload to a non-nil address that returned.
FanOut ==
    /\ ret.op = "WriteToMulticast" /\ phase = "open"
    /\ ret.args.bufLen > 0 /\ ~ret.args.addrNil

\* C5: a fan-out send with a non-empty payload and a non-nil destination
\* attempts exactly len(members) datagram sends, one per member entry in
\* order, whichever interface-selection or send steps fail.
C5_FanOutAttemptsEveryMember ==
    FanOut =>
        /\ Len(sent) = Len(conn.ifaces)
        /\ \A i \in DOMAIN sent : sent[i].member = i /\ sent[i].iface = conn.ifaces[i]

\* A send in which the first member fails both steps where it can and a later
\* member is still sent on.
C5_Witness ==
    /\ FanOut /\ Len(sent) >= 3
    /\ ~sent[1].ok
    /\ (~PerPacket(goos) => ~sent[1].setOk)
    /\ \E i \in DOMAIN sent : i > 1 /\ sent[i].ok

\* The steps of the last fan-out send that failed.
FailedSends == Cardinality({i \in DOMAIN sent : ~sent[i].ok})
FailedSets == Cardinality({i \in DOMAIN sent : ~sent[i].setOk})

\* C6 as stated: if j of the per-interface sends fail the aggregated error
\* references exactly j underlying failures, and it is nil exactly when all
\* sends succeed, on both platform variants.
C6_ErrorCountsFailedSends ==
    FanOut =>
        /\ Len(Underlying(ret.err)) = FailedSends
        /\ (ret.err = Nil <=> FailedSends = 0)

\* C6 amended: the aggregated error references one underlying failure per
\* failed step, the j failed sends plus the s failed interface selections
\* (s = 0 where the interface is annotated per packet), and it is nil exactly
\* when every step succeeded.
C6_ErrorCountsFailedSteps ==
    FanOut =>
        /\ Len(Underlying(ret.err)) = FailedSends + FailedSets
        /\ (ret.err = Nil <=> FailedSends + FailedSets = 0)
        /\ (PerPacket(goos) => FailedSets = 0)

\* A set-then-send fan-out where one member fails its selection only and
\* another its send only.
C6_Witness ==
    /\ FanOut /\ ~PerPacket(goos)
    /\ \E i, k \in DOMAIN sent :
         /\ ~sent[i].setOk /\ sent[i].ok
         /\ sent[k].setOk /\ ~sent[k].ok
    /\ Len(Underlying(ret.err)) = FailedSends + FailedSets

\* C10: a fan-out send with an empty payload and a non-nil destination is a
\* no-op in every connection state: nothing is selected or sent, the
\* connection and the socket are unchanged, and nil is returned.
C10_EmptyPayloadNoOp ==
    [][(phase = "open" /\ ret'.op = "WriteToMulticast"
            /\ ret'.args.bufLen = 0 /\ ~ret'.args.addrNil)
        => /\ sent' = <<>> /\ ret'.err = Nil /\ phase' = "open"
           /\ conn' = conn /\ sock' = sock
           /\ joined' = joined /\ openLog' = openLog]_vars

\* An empty send on a connection that has been closed, after a send that set
\* nothing and sent nothing.
C10_Witness ==
    /\ ret.op = "WriteToMulticast" /\ ret.args.bufLen = 0 /\ ~ret.args.addrNil
    /\ phase = "open" /\ ret.entry = "closed" /\ ret.err = Nil
    /\ Len(conn.ifaces) >= 2 /\ sent = <<>>

-----------------------------------------------------------------------------
\* Properties of Close.

\* C7: Close is idempotent: a second Close does not panic and its error does
\* not include an error for a resource the first call already released.
C7_SecondCloseReportsNothingReleased ==
    (ret.op = "Close" /\ ret.entry = "closed") =>
        /\ phase = "open"
        /\ \A i \in DOMAIN Underlying(ret.err) : Underlying(ret.err)[i] # ErrClosed

\* C8: the bound socket is closed at the OS level exactly once: never twice,
\* and once as soon as a Close call or the Close of a total join failure has
\* returned.
C8_SocketClosedExactlyOnce ==
    /\ sock.osCloses <= 1
    /\ (sock.state = "closed" <=> sock.osCloses = 1)
    /\ (ret.op = "Close" => sock.osCloses = 1)
    /\ (TotalJoinFailure => sock.osCloses = 1)

\* Close has been called on a connection that was already closed.
C8_Witness ==
    /\ ret.op = "Close" /\ ret.entry = "closed"
    /\ sock.osCloses = 1 /\ sock.state = "closed"

-----------------------------------------------------------------------------
\* Properties of JoinMulticastGroup.

\* C9: JoinMulticastGroup is the atomic unit of membership change: when the
\* group-join succeeds exactly that interface is appended at the end of
\* members and nil is returned; when it fails the underlying error is returned
\* and members is unchanged.
C9_JoinAppendsOnSuccessOnly ==
    [][(phase = "open" /\ ret'.op = "JoinMulticastGroup" /\ ret'.args.joins # <<>>)
        => LET a == ret'.args.joins[1]
           IN  IF a.ok
               THEN /\ conn' = [conn EXCEPT !.ifaces = Append(conn.ifaces, a.iface)]
                    /\ ret'.err = Nil
               ELSE /\ conn' = conn
                    /\ ret'.err = Err("JoinGroup", a.iface)]_vars

\* A join of interface 2 that succeeded on a connection opened on interface 1.
C9_Witness ==
    /\ ret.op = "JoinMulticastGroup" /\ ret.err = Nil
    /\ ret.args.joins = <<[iface |-> 2, ok |-> TRUE]>>
    /\ Len(conn.ifaces) = MembersAtOpen + 1
    /\ conn.ifaces[Len(conn.ifaces)] = 2
    /\ \A i \in DOMAIN openLog : openLog[i].iface = 1

-----------------------------------------------------------------------------
\* Properties of argument checking.

ErrAddrNil == Err("multicast: addr cannot be nil", 0)
ErrNetwork(netw) == Err("network must be either 'udp4' or 'udp6': " \o netw, 0)
ErrIfaceNil == Err("multicast: interface cannot be nil", 0)
ErrGaddrNil == Err("multicast: group address cannot be nil", 0)
ErrDestNil == Err("multicast: address cannot be nil", 0)

\* C11: open with a family tag other than "udp4" or "udp6" fails with an
\* argument error and creates or binds no socket, whatever the interface list
\* and the bind address are.
C11_UnknownNetworkRejected ==
    (ret.op = "Open" /\ ret.args.network \notin {"udp4", "udp6"}) =>
        /\ ~ret.conn /\ phase = "failed"
        /\ ret.err = IF ret.args.addrNil THEN ErrAddrNil ELSE ErrNetwork(ret.args.network)
        /\ sock = NoSock /\ conn = NoConn
        /\ openLog = <<>> /\ joined = {}

\* Open of "udp5" with a bind address and two candidate interfaces, on a host
\* where the bind would have succeeded.
C11_Witness ==
    /\ ret.op = "Open" /\ ret.args.network = "udp5"
    /\ ~ret.args.addrNil /\ ret.args.listenOk /\ ret.args.ifs = <<1, 2>>
    /\ ret.err = ErrNetwork("udp5") /\ ret.err.msg = "network must be either 'udp4' or 'udp6': udp5"
    /\ sock.state = "none"

\* C12: a nil address or interface is rejected with an argument error at every
\* entry point that requires one, and the rejected call binds no socket,
\* attempts no join or send, and leaves members and the packet conn unchanged.
C12_NilArgumentsRejected ==
    [][/\ (ret'.op = "Open" /\ ret'.args.addrNil) =>
            /\ ret'.err = ErrAddrNil /\ ~ret'.conn /\ phase' = "failed"
            /\ sock' = NoSock /\ conn' = NoConn /\ openLog' = <<>> /\ joined' = {}
       /\ (ret'.op = "JoinMulticastGroup" /\ (ret'.args.ifaceNil \/ ret'.args.gaddrNil)) =>
            /\ ret'.err = IF ret'.args.ifaceNil THEN ErrIfaceNil ELSE ErrGaddrNil
            /\ ret'.args.joins = <<>> /\ joined' = joined
            /\ conn' = conn /\ sock' = sock /\ phase' = phase
       /\ (ret'.op = "WriteToMulticast" /\ ret'.args.addrNil) =>
            /\ ret'.err = ErrDestNil /\ sent' = <<>>
            /\ conn' = conn /\ sock' = sock /\ phase' = phase]_vars

\* A join with a nil interface and a group address, rejected on an open
\* connection whose members are still those of open.
C12_Witness ==
    /\ ret.op = "JoinMulticastGroup" /\ ret.args.ifaceNil /\ ~ret.args.gaddrNil
    /\ ret.err = ErrIfaceNil /\ phase = "open" /\ sock.state = "open"
    /\ Len(conn.ifaces) = MembersAtOpen

\* C13: JoinMulticastGroup with a nil interface and a non-nil group address
\* is not rejected: it joins the group on the connection's current interfaces.
C13_NilInterfaceJoinsCurrent ==
    (ret.op = "JoinMulticastGroup" /\ ret.args.ifaceNil /\ ~ret.args.gaddrNil
        /\ ret.entry = "open") =>
        /\ ret.err # ErrIfaceNil
        /\ ret.args.joins # <<>>

-----------------------------------------------------------------------------
\* Properties of the struct.

\* C14 as stated: from a successful open on, Close included, exactly one of
\* the two packet conns is non-nil, the one of the connection's family.
C14_ExactlyOneHandleAlways ==
    phase = "open" =>
        /\ conn.ipv4conn = (conn.network = "udp4")
        /\ conn.ipv6conn = (conn.network = "udp6")
        /\ conn.ipv4conn # conn.ipv6conn

\* C14 amended: from a successful open until Close exactly one of the two
\* packet conns is non-nil, the one of the connection's family; Close sets it
\* to nil, so from Close on both are nil.
C14_ExactlyOneHandleUntilClose ==
    phase \in {"open", "panicked"} =>
        IF sock.state = "open"
        THEN /\ conn.ipv4conn = (conn.network = "udp4")
             /\ conn.ipv6conn = (conn.network = "udp6")
             /\ conn.ipv4conn # conn.ipv6conn
        ELSE ~conn.ipv4conn /\ ~conn.ipv6conn

\* A udp6 connection that has been closed: its packet conn is nil again.
C14_Witness ==
    /\ phase = "open" /\ conn.network = "udp6"
    /\ ret.op = "Close" /\ ret.entry = "open"
    /\ ~conn.ipv4conn /\ ~conn.ipv6conn

IsPrefix(a, b) == Len(a) <= Len(b) /\ \A i \in DOMAIN a : a[i] = b[i]

\* C15: members is append-only and mutated only by join: every earlier value
\* is a prefix of every later one, and the setters, WriteToMulticast,
\* Interfaces, Network and Close leave it unchanged.
C15_MembersAppendOnly ==
    [][/\ IsPrefix(conn.ifaces, conn'.ifaces)
       /\ ret'.op \in {"SetMulticastTTL", "SetMulticastHopLimit", "SetMulticastLoopback",
                       "WriteToMulticast", "Interfaces", "Network", "Close"}
            => conn'.ifaces = conn.ifaces]_vars

\* Loopback was switched off on a connection that has joined one more
\* interface since open.
C15_Witness ==
    /\ ret.op = "SetMulticastLoopback" /\ ret.err = Nil /\ ~sock.loopback
    /\ Len(conn.ifaces) = MembersAtOpen + 1

-----------------------------------------------------------------------------
\* Properties of a failed open.

\* C19: whenever open returns an error after the socket was bound, for any
\* cause, the socket has been released.
C19_FailedOpenReleasesSocket ==
    (ret.op = "Open" /\ ~ret.conn) => sock.state # "open"

\* Open got past the bind with no candidate interface at all.
ZeroCandidates ==
    /\ ret.op = "Open" /\ ~ret.args.addrNil /\ ret.args.listenOk
    /\ ret.args.network \in {"udp4", "udp6"}
    /\ \/ ~ret.args.ifsNil /\ ret.args.ifs = <<>>
       \/ ret.args.ifsNil /\ ret.args.enumOk /\ ret.args.listed = <<>>

\* C20: open with zero candidate interfaces is a total join failure: no join
\* is attempted, open returns an error and no connection, and the socket is
\* closed.
C20_ZeroCandidatesFail ==
    ZeroCandidates =>
        /\ ~ret.conn /\ phase = "failed"
        /\ ret.err = Errorf("udp: failed to join any interface", Nil)
        /\ openLog = <<>> /\ joined = {}
        /\ sock.state = "closed" /\ sock.osCloses = 1

\* Open with a nil list on a host whose enumeration finds no eligible
\* interface.
C20_Witness ==
    /\ ZeroCandidates /\ ret.args.ifsNil
    /\ ~ret.conn /\ sock.state = "closed"

-----------------------------------------------------------------------------
\* Properties of the outbound interface, one caller.

\* C16 as stated: every datagram of a fan-out send egresses via the member of
\* its own iteration: it carries that member's index where the interface is
\* annotated per packet, and elsewhere the socket-wide outbound interface is
\* that member when the datagram is sent, also when SetMulticastInterface
\* failed for it.
C16_EgressViaOwnMember ==
    FanOut =>
        \A i \in DOMAIN sent :
            IF PerPacket(goos) THEN sent[i].ifindex = conn.ifaces[i]
            ELSE sent[i].mcastIf = conn.ifaces[i]

\* C16 amended: where the interface is annotated per packet every datagram
\* carries the index of the member of its own iteration; on the other
\* platforms the socket-wide outbound interface is that member when the
\* datagram is sent if SetMulticastInterface succeeded for it, and if it
\* failed the datagram is still sent, via the interface the socket was left
\* on by the iteration before.
C16_EgressViaSelectedMember ==
    FanOut =>
        \A i \in DOMAIN sent :
            IF PerPacket(goos) THEN sent[i].ifindex = conn.ifaces[i] /\ sent[i].setOk
            ELSE /\ sent[i].ifindex = 0
                 /\ sent[i].setOk => sent[i].mcastIf = conn.ifaces[i]
                 /\ ~sent[i].setOk /\ i > 1 => sent[i].mcastIf = sent[i - 1].mcastIf
                 /\ i = Len(sent) => sock.mcastIf = sent[i].mcastIf

\* A set-then-send fan-out whose second member could not be selected: its
\* datagram left via the first member's interface.
C16_Witness ==
    /\ FanOut /\ ~PerPacket(goos) /\ Len(sent) >= 2
    /\ sent[1].setOk /\ ~sent[2].setOk /\ sent[2].ok
    /\ sent[2].mcastIf = conn.ifaces[1] /\ sent[2].mcastIf # conn.ifaces[2]

-----------------------------------------------------------------------------
\* Properties of the outbound interface, concurrent callers.

\* Both goroutines are inside their loops.
Concurrent == \A w \in Writers : calls[w].pc \in {"loop", "send"}

\* C17: on darwin, ios and linux a fan-out send leaves the socket's outbound
\* interface setting as it was, so under every interleaving of concurrent
\* fan-out sends with members fixed each datagram carries the interface index
\* of the member of its own iteration.
C17_PerPacketSafeUnderInterleaving ==
    goos \in {"darwin", "ios", "linux"} =>
        /\ sock.mcastIf = NoSock.mcastIf
        /\ wire # NoDatagram =>
             /\ wire.ifindex = conn.ifaces[wire.member]
             /\ wire.ifindex = wire.iface

\* Callers that do not serialise: goroutine 1 has just sent via one member
\* while goroutine 2 stands between its annotation for a different interface
\* and its send.
C17_Witness ==
    /\ goos \in {"darwin", "ios", "linux"} /\ ~env.serial /\ Concurrent
    /\ wire.writer = 1 /\ wire.ifindex = conn.ifaces[wire.member]
    /\ calls[2].pc = "send" /\ calls[2].wcm # wire.ifindex
    /\ calls[1].ifi # calls[2].ifi

\* C18: on a set-then-send platform, when callers serialise their fan-out
\* sends no datagram whose SetMulticastInterface succeeded leaves via another
\* interface than the member of its iteration; the state where one does is
\* reached only by callers that do not serialise.
C18_SerialisedSendsNotMisrouted ==
    (~PerPacket(goos) /\ env.serial /\ wire # NoDatagram /\ wire.setOk) =>
        /\ wire.mcastIf = wire.iface
        /\ wire.iface = conn.ifaces[wire.member]

\* Two concurrent sends on a set-then-send platform whose every
\* SetMulticastInterface succeeds: the other call changed the socket-wide
\* interface between this call's set and its send, and the datagram left via
\* the wrong one.
C18_Witness ==
    /\ ~PerPacket(goos) /\ ~env.serial /\ env.setBad = {}
    /\ wire # NoDatagram /\ wire.setOk /\ wire.ok
    /\ wire.mcastIf # wire.iface
    /\ wire.mcastIf \in {conn.ifaces[i] : i \in DOMAIN conn.ifaces}

====
